---- MODULE Spec2Model ----
(***************************************************************************)
(* Model of cura::PolygonConnector (src/utils/PolygonConnector.cpp).       *)
(*                                                                         *)
(* A Point is a pair <<x, y>> of integers.  A Polygon is a sequence of     *)
(* Points; the code indexes it from 0, so vertex i of the code is          *)
(* poly[i + 1] here (operator At).  A ClosestPolygonPoint is a record      *)
(* [poly, point_idx, p]: poly names the polygon the point lies on (0 is    *)
(* the polygon `current` of connect(), j >= 1 is slot j of to_connect),    *)
(* point_idx is the 0-based index of the vertex that starts the segment,   *)
(* p is the location.  A std::optional is a sequence of length 0 or 1.     *)
(***************************************************************************)
EXTENDS Integers, Sequences, FiniteSets, TLC

VARIABLES
    input,        \* input_polygons
    line_width,   \* PolygonConnector::line_width
    max_dist,     \* PolygonConnector::max_dist
    to_connect,   \* the worklist of connect()
    ret,          \* the collection connect() returns
    all_bridges,  \* PolygonConnector::all_bridges
    pc,           \* position in connect(): "loop" or "done"
    iters,        \* number of iterations of the while-loop so far
    first_log,    \* for each logged bridge, the connection getConnection gave
    near,         \* input slots with a computed connection within max_dist
    bridge,       \* splice specification: the bridge handed to the splicer
    polyA,        \* splice specification: polygon under a.from / b.from
    polyB,        \* splice specification: polygon under a.to / b.to
    spliced,      \* splice specification: <<>> or <<result polygon>>
    direction,    \* splice specification: <<>> or the two directions between
                  \* a.from and b.from, <<a.from to b.from, b.from to a.from>>
    sc_first,     \* second-connection specification: the argument first
    sc_shift,     \* second-connection specification: shift_distance
    sc_found,     \* second-connection specification: the four intersections
                  \* [from_a, from_b, to_a, to_b], each an optional
    sc_result     \* second-connection specification: <<>> or <<the optional
                  \* getSecondConnection returns>>

vars == <<input, line_width, max_dist, to_connect, ret, all_bridges,
          pc, iters, first_log, near, bridge, polyA, polyB, spliced, direction,
          sc_first, sc_shift, sc_found, sc_result>>

connectVars == <<input, line_width, max_dist, to_connect, ret,
                 all_bridges, pc, iters, first_log, near>>

spliceVars == <<bridge, polyA, polyB, spliced, direction>>

secondVars == <<sc_first, sc_shift, sc_found, sc_result>>

----------------------------------------------------------------------------
(* std::optional *)

None == <<>>

Some(v) == <<v>>

HasValue(o) == o # <<>>

Value(o) == o[1]

----------------------------------------------------------------------------
(* Point/vector primitives (spec section 2, component 1) *)

Abs(a) == IF a < 0 THEN -a ELSE a

Sign(a) == IF a > 0 THEN 1 ELSE IF a < 0 THEN -1 ELSE 0

\* C++ integer division truncates toward zero; b > 0
TruncDiv(a, b) == IF a >= 0 THEN a \div b ELSE -((-a) \div b)

RECURSIVE ISqrtIter(_, _, _)
ISqrtIter(x, lo, hi) ==
    IF lo >= hi THEN lo
    ELSE LET mid == (lo + hi + 1) \div 2
         IN  IF mid * mid <= x THEN ISqrtIter(x, mid, hi)
                               ELSE ISqrtIter(x, lo, mid - 1)

\* floor of the square root
ISqrt(x) == ISqrtIter(x, 0, 46340)

PSub(a, b) == <<a[1] - b[1], a[2] - b[2]>>

PAdd(a, b) == <<a[1] + b[1], a[2] + b[2]>>

dot(a, b) == a[1] * b[1] + a[2] * b[2]

vSize2(a) == a[1] * a[1] + a[2] * a[2]

vSize(a) == ISqrt(vSize2(a))

turn90CCW(a) == <<-a[2], a[1]>>

\* std::numeric_limits<coord_t>::max(), above every distance of the model
CoordMax == 2147483647

----------------------------------------------------------------------------
(* Polygons *)

\* poly[i] of the code (0-based)
At(poly, i) == poly[i + 1]

\* the polygon a ClosestPolygonPoint refers to: 0 is `current`
PolyOf(cur, tc, id) == IF id = 0 THEN cur ELSE tc[id]

CPP(id, idx, pt) == [poly |-> id, point_idx |-> idx, p |-> pt]

Conn(f, t) == [from |-> f, to |-> t]

\* PolygonConnection::getDistance2
getDistance2(c) == vSize2(PSub(c.to.p, c.from.p))

----------------------------------------------------------------------------
(* Direction and arc extraction *)

\* the for-loop of addPolygonSegment without the first_iter guard on the break
RECURSIVE addPolygonSegmentLoopNoFirstIter(_, _, _, _, _, _, _)
addPolygonSegmentLoopNoFirstIter(poly, start, end, dir, vert_nr, first_iter, result) ==
    IF vert_nr >= Len(poly) THEN result
    ELSE LET size == Len(poly)
             vert_idx ==
                 IF dir > 0
                 THEN (start.point_idx + 1 + vert_nr) % size
                 ELSE (start.point_idx - vert_nr + size) % size
             stop_idx == (end.point_idx + (IF dir > 0 THEN 1 ELSE 0)) % size
         IN  IF vert_idx = stop_idx
             THEN result
             ELSE addPolygonSegmentLoopNoFirstIter(poly, start, end, dir,
                      vert_nr + 1, FALSE, Append(result, At(poly, vert_idx)))

\* getPolygonDirection with the two outcomes of the vertex count exchanged
getPolygonDirectionShortArc(cur, tc, from, to) ==
    LET poly == PolyOf(cur, tc, from.poly)
        size == Len(poly)
    IN  IF from.point_idx = to.point_idx
        THEN LET prev_vert  == At(poly, from.point_idx)
                 from_dist2 == vSize2(PSub(from.p, prev_vert))
                 to_dist2   == vSize2(PSub(to.p, prev_vert))
             IN  IF to_dist2 > from_dist2 THEN 1 ELSE -1
        ELSE LET a_to_b_vertex_count ==
                     (to.point_idx - from.point_idx + size) % size
             IN  IF a_to_b_vertex_count > size \div 2 THEN 1 ELSE -1

\* getPolygonDirection with the half-way count taken as the reverse direction
getPolygonDirectionAtLeastHalf(cur, tc, from, to) ==
    LET poly == PolyOf(cur, tc, from.poly)
        size == Len(poly)
    IN  IF from.point_idx = to.point_idx
        THEN LET prev_vert  == At(poly, from.point_idx)
                 from_dist2 == vSize2(PSub(from.p, prev_vert))
                 to_dist2   == vSize2(PSub(to.p, prev_vert))
             IN  IF to_dist2 > from_dist2 THEN 1 ELSE -1
        ELSE LET a_to_b_vertex_count ==
                     (to.point_idx - from.point_idx + size) % size
             IN  IF a_to_b_vertex_count >= size \div 2 THEN -1 ELSE 1

\* PolygonConnector::getPolygonDirection; poly is *from.poly
getPolygonDirection(cur, tc, from, to) ==
    LET poly == PolyOf(cur, tc, from.poly)
        size == Len(poly)
    IN  IF from.point_idx = to.point_idx
        THEN LET prev_vert  == At(poly, from.point_idx)
                 from_dist2 == vSize2(PSub(from.p, prev_vert))
                 to_dist2   == vSize2(PSub(to.p, prev_vert))
             IN  IF to_dist2 > from_dist2 THEN 1 ELSE -1
        ELSE LET a_to_b_vertex_count ==
                     (to.point_idx - from.point_idx + size) % size
             IN  IF a_to_b_vertex_count > size \div 2 THEN -1 ELSE 1

\* the for-loop of addPolygonSegment with the reverse walk adding vert_nr
\* instead of subtracting it
RECURSIVE addPolygonSegmentLoopForward(_, _, _, _, _, _, _)
addPolygonSegmentLoopForward(poly, start, end, dir, vert_nr, first_iter, result) ==
    IF vert_nr >= Len(poly) THEN result
    ELSE LET size == Len(poly)
             vert_idx ==
                 IF dir > 0
                 THEN (start.point_idx + 1 + vert_nr) % size
                 ELSE (start.point_idx + vert_nr + size) % size
             stop_idx == (end.point_idx + (IF dir > 0 THEN 1 ELSE 0)) % size
         IN  IF ~first_iter /\ vert_idx = stop_idx
             THEN result
             ELSE addPolygonSegmentLoopForward(poly, start, end, dir,
                      vert_nr + 1, FALSE, Append(result, At(poly, vert_idx)))

\* the for-loop of addPolygonSegment, from iteration vert_nr on
RECURSIVE addPolygonSegmentLoop(_, _, _, _, _, _, _)
addPolygonSegmentLoop(poly, start, end, dir, vert_nr, first_iter, result) ==
    IF vert_nr >= Len(poly) THEN result
    ELSE LET size == Len(poly)
             vert_idx ==
                 IF dir > 0
                 THEN (start.point_idx + 1 + vert_nr) % size
                 ELSE (start.point_idx - vert_nr + size) % size
             stop_idx == (end.point_idx + (IF dir > 0 THEN 1 ELSE 0)) % size
         IN  IF ~first_iter /\ vert_idx = stop_idx
             THEN result
             ELSE addPolygonSegmentLoop(poly, start, end, dir, vert_nr + 1,
                                        FALSE, Append(result, At(poly, vert_idx)))

\* addPolygonSegment without the final result.add(end.p())
addPolygonSegmentNoEnd(cur, tc, start, end, result) ==
    LET poly == PolyOf(cur, tc, end.poly)
        dir  == getPolygonDirection(cur, tc, end, start)
    IN  addPolygonSegmentLoop(poly, start, end, dir, 0, TRUE,
                              Append(result, start.p))

\* PolygonConnector::addPolygonSegment; returns result after the appends
addPolygonSegment(cur, tc, start, end, result) ==
    LET poly == PolyOf(cur, tc, end.poly)
        dir  == getPolygonDirection(cur, tc, end, start)
    IN  Append(addPolygonSegmentLoop(poly, start, end, dir, 0, TRUE,
                                     Append(result, start.p)),
               end.p)

\* PolygonConnector::connectPolygonsAlongBridge
connectPolygonsAlongBridge(cur, tc, br) ==
    addPolygonSegment(cur, tc, br.a.to, br.b.to,
                      addPolygonSegment(cur, tc, br.b.from, br.a.from, <<>>))

----------------------------------------------------------------------------
(* Boundary query primitives (PolygonUtils), after spec section 4.1 *)

\* the least element of a non-empty set of numbers
Least(S) == CHOOSE h \in S : \A h2 \in S : h <= h2

\* the point of segment a-b closest to pt
closestOnSegment(a, b, pt) ==
    LET ab   == PSub(b, a)
        ap   == PSub(pt, a)
        len2 == vSize2(ab)
        t    == dot(ap, ab)
    IN  IF len2 = 0 \/ t <= 0 THEN a
        ELSE IF t >= len2 THEN b
        ELSE PAdd(a, <<TruncDiv(ab[1] * t, len2), TruncDiv(ab[2] * t, len2)>>)

\* the middle of the segment u-v
Midpoint(u, v) == <<(u[1] + v[1]) \div 2, (u[2] + v[2]) \div 2>>

\* boundary points of poly (polygon id): on every segment its first vertex,
\* its midpoint and its second vertex
BoundaryPoints(poly, id) ==
    LET n == Len(poly)
    IN  UNION {{CPP(id, i, At(poly, i)),
                CPP(id, i, Midpoint(At(poly, i), At(poly, (i + 1) % n))),
                CPP(id, i, At(poly, (i + 1) % n))} : i \in 0..(n - 1)}

\* point_idx of a ClosestPolygonPoint that has not been placed on a segment
NO_INDEX == -1

\* a ClosestPolygonPoint constructed on polygon id and not yet placed
unplaced(id) == CPP(id, NO_INDEX, <<0, 0>>)

\* the point of segment j of poly (polygon id) closest to pt
closestOn(poly, id, j, pt) ==
    CPP(id, j, closestOnSegment(At(poly, j), At(poly, (j + 1) % Len(poly)), pt))

\* squared distance of pt to the boundary of poly
distanceToPolygon2(poly, pt) ==
    Least({vSize2(PSub(pt, closestOn(poly, 0, j, pt).p)) :
               j \in 0..(Len(poly) - 1)})

\* the pairs the refinement of findSmallestConnection can stop at: a boundary
\* point of one polygon with the closest point of a segment of the other
connectionCandidates(from_poly, to_poly, id) ==
    {Conn(f, closestOn(to_poly, id, j, f.p)) :
         f \in BoundaryPoints(from_poly, 0), j \in 0..(Len(to_poly) - 1)}
    \cup
    {Conn(closestOn(from_poly, 0, i, t.p), t) :
         t \in BoundaryPoints(to_poly, id), i \in 0..(Len(from_poly) - 1)}

\* c is a locally closest pair: neither end has a closer point on the other
\* polygon
locallyClosest(from_poly, to_poly, c) ==
    /\ getDistance2(c) <= distanceToPolygon2(to_poly, c.from.p)
    /\ getDistance2(c) <= distanceToPolygon2(from_poly, c.to.p)

\* c is a closest pair among the candidates S
closestAmong(S, c) == \A c2 \in S : getDistance2(c) <= getDistance2(c2)

\* the pairs among the candidates S findSmallestConnection may refine to; the
\* spec fixes neither which locally closest pair it is nor the point_idx of a
\* point that is a vertex
smallestAmong(from_poly, to_poly, S) ==
    {c \in S : locallyClosest(from_poly, to_poly, c) \/ closestAmong(S, c)}

\* the outcomes of findSmallestConnection between two polygons with vertices
smallestConnections(from_poly, to_poly, id) ==
    smallestAmong(from_poly, to_poly,
                  connectionCandidates(from_poly, to_poly, id))

\* location moved to the segment and coordinate of placed; it stays a point
\* of the polygon it was constructed on
movedTo(location, placed) ==
    [location EXCEPT !.point_idx = placed.point_idx, !.p = placed.p]

\* PolygonUtils::findSmallestConnection(from_location, to_location), both
\* passed by reference: moves the pair to a locally closest pair of the two
\* polygons, refined being the pair the refinement stops at; every locally
\* closest pair is a possible outcome, wherever the two points were before.
\* With a polygon without vertices there is nothing to refine and both points
\* stay as they were passed in.
findSmallestConnection(from_location, to_location, from_poly, to_poly, refined) ==
    IF from_poly = <<>> \/ to_poly = <<>>
    THEN Conn(from_location, to_location)
    ELSE Conn(movedTo(from_location, refined.from),
              movedTo(to_location, refined.to))

\* signed perpendicular distance of v to the line s -> line_to
projectedOn(s, line_to, v) ==
    TruncDiv(dot(turn90CCW(PSub(line_to, s)), PSub(v, s)),
             vSize(PSub(line_to, s)))

\* index of the vertex reached after nr steps of the walk from start
walkIdx(start, size, forward, nr) ==
    IF forward THEN (start.point_idx + 1 + nr) % size
               ELSE (start.point_idx - nr + size) % size

\* the steps of the walk whose vertex lies at least dist from the line
parallelHits(poly, start, line_to, dist, forward) ==
    {nr \in 0..(Len(poly) - 1) :
        Abs(projectedOn(start.p, line_to,
                        At(poly, walkIdx(start, Len(poly), forward, nr)))) >= dist}

\* the point between prev_vert and next_vert at distance dist from the line
offsetPoint(prev_vert, next_vert, prev_projected, next_projected, dist) ==
    LET sign == IF next_projected > 0 THEN 1 ELSE -1
        num  == dist - sign * prev_projected
        den  == Abs(next_projected - prev_projected)
    IN  PAdd(prev_vert,
             <<TruncDiv((next_vert[1] - prev_vert[1]) * num, den),
               TruncDiv((next_vert[2] - prev_vert[2]) * num, den)>>)

\* the result of the walk that first reaches the distance at step nr, coming
\* from prev_vert
parallelIntersectionAt(poly, start, line_to, dist, forward, nr, prev_vert) ==
    LET size == Len(poly)
        next_point_idx == walkIdx(start, size, forward, nr)
        vert_before_idx == IF forward THEN (next_point_idx - 1 + size) % size
                                      ELSE next_point_idx
    IN  CPP(start.poly, vert_before_idx,
            offsetPoint(prev_vert, At(poly, next_point_idx),
                        projectedOn(start.p, line_to, prev_vert),
                        projectedOn(start.p, line_to, At(poly, next_point_idx)),
                        dist))

\* the vertex the walk stood on before step nr (start itself before step 0)
walkPrev(poly, start, forward, nr) ==
    IF nr = 0 THEN start.p
              ELSE At(poly, walkIdx(start, Len(poly), forward, nr - 1))

\* getNextParallelIntersection when some step of the walk reaches the distance
parallelIntersectionFirst(poly, start, line_to, dist, forward, nr) ==
    parallelIntersectionAt(poly, start, line_to, dist, forward, nr,
                           walkPrev(poly, start, forward, nr))

\* PolygonUtils::getNextParallelIntersection: walk poly from start (forward:
\* increasing vertex index) and return the first boundary point whose
\* perpendicular distance to the line start.p -> line_to equals dist; no value
\* when no vertex of the walk reaches that distance.
getNextParallelIntersection(poly, start, line_to, dist, forward) ==
    IF \/ vSize(PSub(line_to, start.p)) = 0
       \/ dist <= 0
       \/ parallelHits(poly, start, line_to, dist, forward) = {}
    THEN None
    ELSE Some(parallelIntersectionFirst(poly, start, line_to, dist, forward,
                  Least(parallelHits(poly, start, line_to, dist, forward))))

----------------------------------------------------------------------------
(* Connection search, second-connection search, bridge construction *)

\* a default-constructed PolygonConnection
NoConnection == Conn(CPP(-1, -1, <<0, 0>>), CPP(-1, -1, <<0, 0>>))

\* The loop of getConnection is modelled on its state
\* <<returned, best_connection, best_connection_distance2, from_location,
\*   searches>>: returned says that line 256 has returned best_connection,
\* from_location is the variable of line 238, which every call of line 246
\* updates, and searches lists <<i, connection>> for every element i on which
\* line 246 ran, with the connection it left in from_location and to_location.

\* the state before the first iteration (lines 236-238)
searchStart ==
    <<FALSE, NoConnection, CoordMax, unplaced(0), <<>>>>

\* lines 248-258 of getConnection for the connection result that line 246
\* left for element i
connectionStep(result, i, step) ==
    IF getDistance2(result) < step[3]
    THEN <<getDistance2(result) < (line_width + 10) * (line_width + 10),
           result, getDistance2(result), result.from,
           Append(step[5], <<i, result>>)>>
    ELSE <<FALSE, step[2], step[3], result.from,
           Append(step[5], <<i, result>>)>>

\* data() of a vector that owns no storage
NullData == 0

\* line 241, to_poly.data() == from_poly.data(): a comparison of the two
\* storage addresses (NullData, or the address of the storage the vector owns)
sameData(from_data, to_data) == from_data = to_data

\* lines 241-258: the iteration for element i, to_poly with storage
\* to_data_i; refined is the pair the refinement of line 246 stops at
connectionIteration(from_poly, from_data, to_poly, to_data_i, i, refined, step) ==
    IF sameData(from_data, to_data_i)
    THEN step
    ELSE connectionStep(
             findSmallestConnection(step[4], unplaced(i), from_poly, to_poly,
                                    refined),
             i, step)

\* the for-loop of getConnection over to_polygons from element i on; found[i]
\* is the pair the refinement for element i stops at
RECURSIVE getConnectionLoop(_, _, _, _, _, _, _)
getConnectionLoop(from_poly, from_data, to_polygons, to_data, found, i, step) ==
    IF step[1] \/ i > Len(to_polygons)
    THEN step
    ELSE getConnectionLoop(from_poly, from_data, to_polygons, to_data, found,
             i + 1,
             connectionIteration(from_poly, from_data, to_polygons[i],
                                 to_data[i], i, found[i], step))

\* lines 256 and 260-267: what getConnection returns from the state step
connectionReturned(step) ==
    IF step[1] THEN Some(step[2])
    ELSE IF step[3] = CoordMax THEN None
    ELSE Some(step[2])

\* PolygonConnector::getConnection
getConnection(from_poly, from_data, to_polygons, to_data, found) ==
    connectionReturned(
        getConnectionLoop(from_poly, from_data, to_polygons, to_data, found,
                          1, searchStart))

\* whether getConnection, after the outcomes found for the elements before
\* k, refines a pair for element k: it has not returned, does not skip the
\* element, and both polygons have vertices
refines(from_poly, from_data, to_polygons, to_data, found, k) ==
    /\ from_poly # <<>>
    /\ to_polygons[k] # <<>>
    /\ ~sameData(from_data, to_data[k])
    /\ ~getConnectionLoop(from_poly, from_data, SubSeq(to_polygons, 1, k - 1),
                          to_data, found, 1, searchStart)[1]

\* the outcomes found extended by every outcome for element k
extendOutcomes(from_poly, from_data, to_polygons, to_data, found, k) ==
    IF refines(from_poly, from_data, to_polygons, to_data, found, k)
    THEN {Append(found, c) :
              c \in smallestConnections(from_poly, to_polygons[k], k)}
    ELSE {Append(found, NoConnection)}

\* every sequence of outcomes of the findSmallestConnection calls that
\* getConnection makes on the first k elements (NoConnection where it
\* refines nothing)
RECURSIVE searchOutcomes(_, _, _, _, _)
searchOutcomes(from_poly, from_data, to_polygons, to_data, k) ==
    IF k = 0 THEN {<<>>}
    ELSE UNION {extendOutcomes(from_poly, from_data, to_polygons, to_data,
                               found, k) :
                    found \in searchOutcomes(from_poly, from_data, to_polygons,
                                             to_data, k - 1)}

\* whether from and to pass the test of lines 198-203: both strictly on the
\* same side of the first connection (from_projection * to_projection > 0)
sameSide(first, from, to) ==
    Sign(dot(PSub(from.p, first.to.p),
             turn90CCW(PSub(first.from.p, first.to.p))))
    * Sign(dot(PSub(to.p, first.to.p),
               turn90CCW(PSub(first.from.p, first.to.p)))) > 0

\* total_distance2 of line 205
totalDistance2(first, from, to) ==
    vSize2(PSub(from.p, to.p)) + vSize2(PSub(from.p, first.from.p))
    + vSize(PSub(to.p, first.to.p))

\* lines 206-211 with a combination of equal distance taking over
keepBestOrLater(acc, from, to, d2) ==
    IF d2 <= acc.best_total_distance2
    THEN [best |-> Conn(from, to), best_total_distance2 |-> d2]
    ELSE acc

\* lines 206-211: keep the better of acc and the combination with distance d2
keepBest(acc, from, to, d2) ==
    IF d2 < acc.best_total_distance2
    THEN [best |-> Conn(from, to), best_total_distance2 |-> d2]
    ELSE acc

\* body of the inner loop of getSecondConnection for one (from, to)
\* combination; acc is [best, best_total_distance2]
considerCombination(acc, first, from, to) ==
    IF ~sameSide(first, from, to)
    THEN acc
    ELSE keepBest(acc, from, to, totalDistance2(first, from, to))

\* the inner loop (to_idx = 0, 1) of getSecondConnection for one from
secondConnectionInner(acc, first, from, to_a, to_b) ==
    IF sameSide(first, from, Value(to_a)) /\ to_a = to_b
    THEN considerCombination(acc, first, from, Value(to_a))      \* break
    ELSE IF ~HasValue(to_b)
    THEN considerCombination(acc, first, from, Value(to_a))      \* continue
    ELSE considerCombination(
             considerCombination(acc, first, from, Value(to_a)),
             first, from, Value(to_b))

\* lines 223-230 of getSecondConnection
secondConnectionResult(acc, shift_distance) ==
    IF acc.best_total_distance2
           > max_dist * max_dist
             + 2 * (shift_distance + 10) * (shift_distance + 10)
    THEN None
    ELSE Some(acc.best)

\* lines 162-230 of getSecondConnection, for the four intersections found
secondConnectionOf(first, shift_distance, from_a, from_b, to_a, to_b) ==
    IF ~HasValue(from_a) THEN None
    ELSE IF ~HasValue(to_a) THEN None
    ELSE IF from_a = from_b \/ ~HasValue(from_b)
    THEN secondConnectionResult(
             secondConnectionInner(
                 [best |-> NoConnection, best_total_distance2 |-> CoordMax],
                 first, Value(from_a), to_a, to_b),
             shift_distance)
    ELSE secondConnectionResult(
             secondConnectionInner(
                 secondConnectionInner(
                     [best |-> NoConnection, best_total_distance2 |-> CoordMax],
                     first, Value(from_a), to_a, to_b),
                 first, Value(from_b), to_a, to_b),
             shift_distance)

\* PolygonConnector::getSecondConnection
getSecondConnection(cur, tc, first, shift_distance) ==
    secondConnectionOf(first, shift_distance,
        getNextParallelIntersection(PolyOf(cur, tc, first.from.poly),
            first.from, first.to.p, shift_distance, TRUE),
        getNextParallelIntersection(PolyOf(cur, tc, first.from.poly),
            first.from, first.to.p, shift_distance, FALSE),
        getNextParallelIntersection(PolyOf(cur, tc, first.to.poly),
            first.to, first.from.p, shift_distance, TRUE),
        getNextParallelIntersection(PolyOf(cur, tc, first.to.poly),
            first.to, first.from.p, shift_distance, FALSE))

\* lines 139-149 of getBridge: build the bridge and order a and b
orientBridge(connection, second_connection) ==
    IF dot(turn90CCW(PSub(connection.to.p, connection.from.p)),
           PSub(second_connection.from.p, connection.from.p)) > 0
    THEN [a |-> second_connection, b |-> connection]
    ELSE [a |-> connection, b |-> second_connection]

\* lines 137-155 of getBridge
bridgeResult(connection, second_connection) ==
    IF HasValue(connection) /\ HasValue(second_connection)
    THEN Some(orientBridge(Value(connection), Value(second_connection)))
    ELSE None

\* lines 132-155 with the re-run anchored at the connection the half-width
\* search found
bridgeAfterRetryAnchored(cur, tc, connection, second_connection) ==
    IF HasValue(second_connection)
    THEN bridgeResult(getSecondConnection(cur, tc, Value(second_connection),
                                          line_width),
                      second_connection)
    ELSE bridgeResult(Some(connection), second_connection)

\* lines 132-155 of getBridge: second_connection is the result of the
\* half-width search
bridgeAfterRetry(cur, tc, connection, second_connection) ==
    IF HasValue(second_connection)
    THEN bridgeResult(getSecondConnection(cur, tc, connection, line_width),
                      second_connection)
    ELSE bridgeResult(Some(connection), second_connection)

\* lines 128-155 without the overwrite of connection at line 134: the bridge
\* is built from the first connection and the result of the half-width search
bridgeAfterFirstTryKeepFirst(cur, tc, connection, second_connection) ==
    IF ~HasValue(second_connection)
    THEN bridgeResult(Some(connection),
             getSecondConnection(cur, tc, connection, line_width \div 2))
    ELSE bridgeResult(Some(connection), second_connection)

\* lines 128-155 of getBridge: second_connection is the result of the
\* full-width search
bridgeAfterFirstTry(cur, tc, connection, second_connection) ==
    IF ~HasValue(second_connection)
    THEN bridgeAfterRetry(cur, tc, connection,
             getSecondConnection(cur, tc, connection, line_width \div 2))
    ELSE bridgeResult(Some(connection), second_connection)

\* lines 121-155 without the max_dist test on the first connection
bridgeFromNoMaxDist(from_poly, to_polygons, connection) ==
    IF ~HasValue(connection)
    THEN None
    ELSE bridgeAfterFirstTry(from_poly, to_polygons, Value(connection),
             getSecondConnection(from_poly, to_polygons, Value(connection),
                                 line_width))

\* lines 121-155 of getBridge: connection is the result of getConnection
bridgeFrom(from_poly, to_polygons, connection) ==
    IF ~HasValue(connection)
       \/ getDistance2(Value(connection)) > max_dist * max_dist
    THEN None
    ELSE bridgeAfterFirstTry(from_poly, to_polygons, Value(connection),
             getSecondConnection(from_poly, to_polygons, Value(connection),
                                 line_width))

\* PolygonConnector::getBridge
getBridge(from_poly, from_data, to_polygons, to_data, found) ==
    bridgeFrom(from_poly, to_polygons,
               getConnection(from_poly, from_data, to_polygons, to_data, found))

----------------------------------------------------------------------------
(* Inputs of connect() *)

\* largest number of input polygons
MaxPolys == 3

Square(x, y, side) ==
    <<<<x, y>>, <<x + side, y>>, <<x + side, y + side>>, <<x, y + side>>>>

\* the two squares of the concrete scenario, one far away, one above the first
SquareLeft == Square(0, 0, 1000)

SquareRight == Square(1100, 0, 1000)

SquareFar == Square(3500, 0, 600)

SquareTop == Square(0, 1100, 1000)

\* two pentagons of height 700 whose tips face each other at a gap of 100
PentagonLeft ==
    <<<<0, 0>>, <<600, 0>>, <<700, 350>>, <<600, 700>>, <<0, 700>>>>

PentagonRight ==
    <<<<800, 350>>, <<900, 0>>, <<1500, 0>>, <<1500, 700>>, <<900, 700>>>>

\* a hook whose tip (0, 0) faces the left side of a bar and whose arm passes
\* under the bar and rises on its right side
Hook ==
    <<<<0, 0>>, <<-30, -200>>, <<125, -300>>, <<280, -200>>, <<300, 450>>,
      <<330, -250>>, <<125, -380>>, <<-80, -250>>>>

Bar == <<<<100, -50>>, <<150, -50>>, <<150, 900>>, <<100, 900>>>>

\* a polygon without vertices; its data() is null
EmptyPolygon == <<>>

\* each world is a set of pairwise disjoint polygons; the first one holds a
\* polygon without vertices beside the squares, the last one two of them
Worlds == << <<SquareLeft, SquareRight, SquareFar, EmptyPolygon>>,
             <<SquareLeft, SquareRight, SquareTop>>,
             <<PentagonLeft, PentagonRight>>,
             <<Hook, Bar>>,
             <<EmptyPolygon, EmptyPolygon>> >>

LineWidths == {200, 400}

MaxDists == {50, 150, 1000}

\* the sequences of at most MaxPolys distinct polygons of world w
Inputs(w) ==
    LET n == Len(w)
    IN  {[i \in 1..Len(sel) |-> w[sel[i]]] :
            sel \in {q \in UNION {[1..m -> 1..n] : m \in 0..MaxPolys} :
                        \A i, j \in DOMAIN q : i # j => q[i] # q[j]}}

----------------------------------------------------------------------------
(* connect() *)

NoBridge == [a |-> NoConnection, b |-> NoConnection]

Init ==
    /\ \E wi \in DOMAIN Worlds : input \in Inputs(Worlds[wi])
    /\ line_width \in LineWidths
    /\ max_dist \in MaxDists
    /\ to_connect = input
    /\ ret = <<>>
    /\ all_bridges = <<>>
    /\ pc = "loop"
    /\ iters = 0
    /\ first_log = <<>>
    /\ near = {}
    /\ bridge = NoBridge
    /\ polyA = <<>>
    /\ polyB = <<>>
    /\ spliced = <<>>
    /\ direction = <<>>
    /\ sc_first = NoConnection
    /\ sc_shift = 0
    /\ sc_found = <<>>
    /\ sc_result = <<>>

\* the polygon popped by the next iteration, and the rest of the worklist
Current == to_connect[Len(to_connect)]

Rest == SubSeq(to_connect, 1, Len(to_connect) - 1)

\* data() of the polygon held in slot i of the worklist: line 18 copies every
\* input polygon into a vector of its own, and the copy of a polygon without
\* vertices owns no storage; the polygon keeps its storage when line 23 moves
\* it into current
dataOf(poly, i) == IF poly = <<>> THEN NullData ELSE i

\* data() of the elements of worklist rest
dataIn(rest) == [i \in 1..Len(rest) |-> dataOf(rest[i], i)]

\* line 26 of connect(): getBridge(current, to_connect) after the pop
getBridgeOfCurrent(current, rest, found) ==
    getBridge(current, dataOf(current, Len(rest) + 1), rest, dataIn(rest),
              found)

\* line 120 in the call of line 26: getConnection(current, to_connect)
getConnectionOfCurrent(current, rest, found) ==
    getConnection(current, dataOf(current, Len(rest) + 1), rest, dataIn(rest),
                  found)

\* the outcomes of the findSmallestConnection calls in the call of line 26
outcomesOfCurrent(current, rest) ==
    searchOutcomes(current, dataOf(current, Len(rest) + 1), rest,
                   dataIn(rest), Len(rest))

\* the connections line 246 computed in the call of line 26, as <<i, c>>
searchesOfCurrent(current, rest, found) ==
    getConnectionLoop(current, dataOf(current, Len(rest) + 1), rest,
                      dataIn(rest), found, 1, searchStart)[5]

\* the slots that take part in a computed connection within max_dist: the
\* elements the connections of searches lead to, and from_slot, the slot
\* current was popped from
nearSlots(searches, from_slot) ==
    IF \E k \in 1..Len(searches) :
           getDistance2(searches[k][2]) <= max_dist * max_dist
    THEN {searches[k][1] : k \in {k2 \in 1..Len(searches) :
              getDistance2(searches[k2][2]) <= max_dist * max_dist}}
         \cup {from_slot}
    ELSE {}

\* the worklist with the matched polygon removed instead of overwritten
removeOtherPoly(rest, found, merged) ==
    [i \in 1..(Len(rest) - 1) |->
        IF i < found.a.to.poly THEN rest[i] ELSE rest[i + 1]]

\* the worklist with its last polygon overwritten by the connected polygon
replaceLastPoly(rest, found, merged) ==
    [rest EXCEPT ![Len(rest)] = merged]

\* lines 32-33 of connect(): the worklist with the polygon the bridge leads
\* to overwritten by the connected polygon
replaceOtherPoly(rest, found, merged) ==
    [rest EXCEPT ![found.a.to.poly] = merged]

\* the output with current added twice
addToRetTwice(r, current) == Append(Append(r, current), current)

\* line 39 of connect(): ret.add(std::move(current))
addToRet(r, current) == Append(r, current)

\* lines 27-36 of connect() for the bridge found, with the connection
\* getConnection gave recorded beside it
storeBridge(current, rest, found, first) ==
    /\ all_bridges' = Append(all_bridges, found)
    /\ to_connect' = replaceOtherPoly(rest, found,
                         connectPolygonsAlongBridge(current, rest, found))
    /\ first_log' = Append(first_log,
                           [first |-> first, from_slot |-> Len(rest) + 1])

\* an iteration of the while-loop in which getBridge finds a bridge, for the
\* outcomes found of the connection searches
bridgeIteration(current, rest, found) ==
    /\ HasValue(getBridgeOfCurrent(current, rest, found))
    /\ storeBridge(current, rest,
                   Value(getBridgeOfCurrent(current, rest, found)),
                   Value(getConnectionOfCurrent(current, rest, found)))
    /\ near' = near \cup nearSlots(searchesOfCurrent(current, rest, found),
                                   Len(rest) + 1)

\* an iteration of the while-loop in which getBridge finds no bridge
emitIteration(current, rest, found) ==
    /\ ~HasValue(getBridgeOfCurrent(current, rest, found))
    /\ ret' = addToRet(ret, current)
    /\ to_connect' = rest
    /\ near' = near \cup nearSlots(searchesOfCurrent(current, rest, found),
                                   Len(rest) + 1)

\* one iteration of the while-loop in which getBridge finds a bridge
ConnectBridge ==
    /\ pc = "loop"
    /\ to_connect # <<>>
    /\ \E found \in outcomesOfCurrent(Current, Rest) :
           bridgeIteration(Current, Rest, found)
    /\ iters' = iters + 1
    /\ UNCHANGED <<input, line_width, max_dist, ret, pc>>
    /\ UNCHANGED spliceVars
    /\ UNCHANGED secondVars

\* one iteration of the while-loop in which getBridge finds no bridge
ConnectEmit ==
    /\ pc = "loop"
    /\ to_connect # <<>>
    /\ \E found \in outcomesOfCurrent(Current, Rest) :
           emitIteration(Current, Rest, found)
    /\ iters' = iters + 1
    /\ UNCHANGED <<input, line_width, max_dist, all_bridges, pc, first_log>>
    /\ UNCHANGED spliceVars
    /\ UNCHANGED secondVars

\* the loop condition fails: connect() returns ret
ConnectReturn ==
    /\ pc = "loop"
    /\ to_connect = <<>>
    /\ pc' = "done"
    /\ UNCHANGED <<input, line_width, max_dist, to_connect, ret, all_bridges,
                   iters, first_log, near>>
    /\ UNCHANGED spliceVars
    /\ UNCHANGED secondVars

Next == ConnectBridge \/ ConnectEmit \/ ConnectReturn

Spec == Init /\ [][Next]_vars

\* an iteration of the while-loop, told by the count of iterations: lines
\* 23-40 run whenever line 21 finds the worklist non-empty, and getBridge
\* decides only whether they merge or emit
LoopIteration == pc = "loop" /\ to_connect # <<>> /\ iters' = iters + 1

\* connect() is a synchronous call on one thread: an iteration that can run
\* is run, and line 43 returns once the worklist is empty
FairSpec == Spec /\ WF_iters(LoopIteration) /\ WF_vars(ConnectReturn)

----------------------------------------------------------------------------
(* The splicer on its own: connectPolygonsAlongBridge and                  *)
(* getPolygonDirection applied to every bridge between two test polygons   *)

\* largest vertex count of the polygon under a.from / b.from
MaxNA == 4

\* largest vertex count of the polygon under a.to / b.to
MaxNB == 3

\* a convex polygon of n distinct vertices with even coordinates
TestPoly(n, x0) == [i \in 1..n |-> <<x0 + 4 * (i - 1), 2 * (i - 1) * (i - 1)>>]

InitSplice ==
    /\ \E nA \in 1..MaxNA, nB \in 1..MaxNB :
          /\ polyA = TestPoly(nA, 0)
          /\ polyB = TestPoly(nB, 100)
    /\ \E af, bf \in BoundaryPoints(polyA, 0), at, bt \in BoundaryPoints(polyB, 1) :
          bridge = [a |-> Conn(af, at), b |-> Conn(bf, bt)]
    /\ spliced = <<>>
    /\ direction = <<>>
    /\ input = <<>>
    /\ line_width = 0
    /\ max_dist = 0
    /\ to_connect = <<>>
    /\ ret = <<>>
    /\ all_bridges = <<>>
    /\ pc = "splice"
    /\ iters = 0
    /\ first_log = <<>>
    /\ near = {}
    /\ sc_first = NoConnection
    /\ sc_shift = 0
    /\ sc_found = <<>>
    /\ sc_result = <<>>

\* connectPolygonsAlongBridge(bridge)
Splice ==
    /\ pc = "splice"
    /\ spliced = <<>>
    /\ spliced' = <<connectPolygonsAlongBridge(polyA, <<polyB>>, bridge)>>
    /\ UNCHANGED <<bridge, polyA, polyB, direction>>
    /\ UNCHANGED connectVars
    /\ UNCHANGED secondVars

\* getPolygonDirection between a.from and b.from, in both argument orders
Direction ==
    /\ pc = "splice"
    /\ direction = <<>>
    /\ direction' =
           <<getPolygonDirection(polyA, <<polyB>>, bridge.a.from, bridge.b.from),
             getPolygonDirection(polyA, <<polyB>>, bridge.b.from, bridge.a.from)>>
    /\ UNCHANGED <<bridge, polyA, polyB, spliced>>
    /\ UNCHANGED connectVars
    /\ UNCHANGED secondVars

NextSplice == Splice \/ Direction

SpecSplice == InitSplice /\ [][NextSplice]_vars

----------------------------------------------------------------------------
(* getSecondConnection on its own: lines 162-230 applied to every outcome   *)
(* of the four getNextParallelIntersection calls over a few boundary points *)

\* the first connection handed to getSecondConnection
FirstConnection == Conn(CPP(0, 0, <<0, 0>>), CPP(1, 0, <<0, 10>>))

\* outcomes of the two searches from first.from
FromFound ==
    {None} \cup {Some(CPP(0, 0, q)) : q \in {<<5, 0>>, <<-5, 0>>, <<20, 0>>}}

\* outcomes of the two searches from first.to
ToFound ==
    {None} \cup {Some(CPP(1, 0, q)) : q \in {<<5, 10>>, <<-5, 10>>, <<0, 10>>}}

ShiftDistances == {2, 5}

SecondMaxDists == {0, 30}

InitSecond ==
    /\ sc_first = FirstConnection
    /\ sc_shift \in ShiftDistances
    /\ max_dist \in SecondMaxDists
    /\ sc_found \in [from_a : FromFound, from_b : FromFound,
                     to_a : ToFound, to_b : ToFound]
    /\ sc_result = <<>>
    /\ input = <<>>
    /\ line_width = 0
    /\ to_connect = <<>>
    /\ ret = <<>>
    /\ all_bridges = <<>>
    /\ pc = "second"
    /\ iters = 0
    /\ first_log = <<>>
    /\ near = {}
    /\ bridge = NoBridge
    /\ polyA = <<>>
    /\ polyB = <<>>
    /\ spliced = <<>>
    /\ direction = <<>>

\* getSecondConnection(first, shift_distance) after its four searches
SecondConnection ==
    /\ pc = "second"
    /\ sc_result = <<>>
    /\ sc_result' = <<secondConnectionOf(sc_first, sc_shift,
                          sc_found.from_a, sc_found.from_b,
                          sc_found.to_a, sc_found.to_b)>>
    /\ UNCHANGED <<sc_first, sc_shift, sc_found>>
    /\ UNCHANGED connectVars
    /\ UNCHANGED spliceVars

NextSecond == SecondConnection

SpecSecond == InitSecond /\ [][NextSecond]_vars

----------------------------------------------------------------------------
(* Properties *)

\* the orientation test of getBridge evaluated on a bridge
orientationTest(br) ==
    dot(turn90CCW(PSub(br.a.to.p, br.a.from.p)), PSub(br.b.from.p, br.a.from.p))

\* no two cyclically consecutive points of poly coincide
NoConsecutiveCoincident(poly) ==
    \A i \in 1..Len(poly) : poly[i] # poly[(i % Len(poly)) + 1]

\* 0-based index of vertex pt in poly (the vertices of poly are distinct)
IndexOf(poly, pt) == CHOOSE i \in 0..(Len(poly) - 1) : At(poly, i) = pt

\* the points of the spliced polygon that addPolygonSegment took from polyA
\* and from polyB: what lies between the start and end point of each segment
SegmentALen ==
    Len(addPolygonSegment(polyA, <<polyB>>, bridge.b.from, bridge.a.from, <<>>))

RetainedA == SubSeq(spliced[1], 2, SegmentALen - 1)

RetainedB == SubSeq(spliced[1], SegmentALen + 2, Len(spliced[1]) - 1)

\* consecutive vertices of seq are consecutive vertices of poly, by step d
StepsBy(poly, seq, d) ==
    \A k \in 1..(Len(seq) - 1) :
        IndexOf(poly, seq[k + 1])
            = (IndexOf(poly, seq[k]) + d + Len(poly)) % Len(poly)

\* C1: the collection connect() returns has at most as many polygons as the
\* input
C1_OutputAtMostInput == pc = "done" => Len(ret) <= Len(input)

C1_Witness == pc = "done" /\ Len(input) >= 2 /\ Len(ret) < Len(input)

\* C2: connect() returns in every execution, after exactly N iterations: the
\* connection searches of an iteration always have an outcome, and every
\* iteration of the while-loop shortens the worklist by exactly one, with or
\* without a bridge, so that the iterations run so far and the length of the
\* worklist always add up to N
C2_Terminates ==
    /\ <>(pc = "done" /\ iters = Len(input))
    /\ []((pc = "loop" /\ to_connect # <<>>)
              => outcomesOfCurrent(Current, Rest) # {})
    /\ [][(pc = "loop" /\ to_connect # <<>>) =>
             /\ Len(to_connect') = Len(to_connect) - 1
             /\ iters' = iters + 1
             /\ pc' = "loop"]_vars
    /\ [](iters + Len(to_connect) = Len(input))
    /\ [](pc = "done" => iters = Len(input))

C2_Witness ==
    pc = "done" /\ iters = Len(input) /\ all_bridges # <<>> /\ ret # <<>>
    /\ Len(input) >= 3

\* C3: an input polygon for which every connection computed to or from it is
\* longer than max_dist is in the output with its input vertex sequence, and
\* no logged bridge departs from it or arrives at it
C3_IsolatedUnchanged ==
    pc = "done" =>
        \A i \in 1..Len(input) :
            i \notin near =>
                /\ \E r \in 1..Len(ret) : ret[r] = input[i]
                /\ \A k \in 1..Len(all_bridges) :
                       /\ first_log[k].from_slot # i
                       /\ all_bridges[k].a.to.poly # i
                       /\ all_bridges[k].b.to.poly # i

C3_Witness ==
    /\ pc = "done"
    /\ all_bridges # <<>>
    /\ \E i \in 1..Len(input) :
           i \notin near /\ \E r \in 1..Len(ret) : ret[r] = input[i]

\* C4: the connection getConnection returned is one of the two connections of
\* every logged bridge and is no longer than max_dist
C4_FirstConnectionAdmissible ==
    \A k \in 1..Len(all_bridges) :
        /\ first_log[k].first \in {all_bridges[k].a, all_bridges[k].b}
        /\ getDistance2(first_log[k].first) <= max_dist * max_dist

C4_Witness ==
    \E k \in 1..Len(all_bridges) :
        /\ first_log[k].first = all_bridges[k].b
        /\ getDistance2(first_log[k].first) <= max_dist * max_dist

\* C5: the orientation test is non-positive on every bridge getBridge returns
C5_OrientationCanonical ==
    \A k \in 1..Len(all_bridges) : orientationTest(all_bridges[k]) <= 0

\* C6 as stated: for points on different segments the two argument orders of
\* getPolygonDirection give opposite signs
C6_OppositeSigns ==
    (direction # <<>> /\ bridge.a.from.point_idx # bridge.b.from.point_idx)
        => direction[1] + direction[2] = 0

\* C6, amended: opposite signs, except that both orders give +1 when the
\* vertex count is even and the two indices are exactly half of it apart
C6_OppositeSignsUnlessHalfway ==
    (direction # <<>> /\ bridge.a.from.point_idx # bridge.b.from.point_idx)
        => LET n == Len(polyA)
               count == (bridge.b.from.point_idx - bridge.a.from.point_idx + n) % n
           IN  IF n % 2 = 0 /\ count = n \div 2
               THEN direction = <<1, 1>>
               ELSE direction \in {<<1, -1>>, <<-1, 1>>}

C6_Witness ==
    /\ direction = <<1, 1>>
    /\ Len(polyA) = 4
    /\ bridge.a.from.point_idx = 1
    /\ bridge.b.from.point_idx = 3

\* C7: splicing polygons without consecutive coincident vertices along a
\* bridge with four distinct endpoints gives a polygon without consecutive
\* coincident points
C7_NoCoincidentPoints ==
    ( /\ spliced # <<>>
      /\ Len(polyA) >= 2 /\ NoConsecutiveCoincident(polyA)
      /\ Len(polyB) >= 2 /\ NoConsecutiveCoincident(polyB)
      /\ Cardinality({bridge.a.from.p, bridge.a.to.p,
                      bridge.b.from.p, bridge.b.to.p}) = 4 )
        => NoConsecutiveCoincident(spliced[1])

\* C8 as stated: the retained vertices of both polygons appear in increasing
\* vertex index order
C8_WindingPreserved ==
    spliced # <<>> => /\ StepsBy(polyA, RetainedA, 1)
                      /\ StepsBy(polyB, RetainedB, 1)

\* C8, amended: the retained vertices of each polygon appear in consecutive
\* cyclic order, increasing when getPolygonDirection(end, start) is +1 and
\* decreasing when it is -1
C8_OrderFollowsDirection ==
    spliced # <<>> =>
        /\ StepsBy(polyA, RetainedA,
                   getPolygonDirection(polyA, <<polyB>>,
                                       bridge.a.from, bridge.b.from))
        /\ StepsBy(polyB, RetainedB,
                   getPolygonDirection(polyA, <<polyB>>,
                                       bridge.b.to, bridge.a.to))

C8_Witness ==
    /\ spliced # <<>>
    /\ Len(polyA) = 4
    /\ Len(RetainedA) = 3
    /\ getPolygonDirection(polyA, <<polyB>>, bridge.a.from, bridge.b.from) = -1
    /\ Len(RetainedB) = 3
    /\ getPolygonDirection(polyA, <<polyB>>, bridge.b.to, bridge.a.to) = 1

\* the input of the concrete scenario
TwoSquares ==
    /\ input = <<SquareLeft, SquareRight>>
    /\ line_width = 400
    /\ max_dist = 1000

\* C9 as stated: the two squares merge into one polygon of 8 vertices
C9_TwoSquaresEightVertices ==
    (pc = "done" /\ TwoSquares) => (Len(ret) = 1 /\ Len(ret[1]) = 8)

\* C9, amended: the two squares merge into one polygon that holds the 8
\* corners among the points addPolygonSegment appends, 10 to 12 points in
\* all, whichever closest pair findSmallestConnection settles on
C9_TwoSquaresTenToTwelvePoints ==
    (pc = "done" /\ TwoSquares) =>
        /\ Len(ret) = 1
        /\ Len(ret[1]) \in 10..12
        /\ \A i \in 1..4 : \E k \in 1..Len(ret[1]) : ret[1][k] = SquareLeft[i]
        /\ \A i \in 1..4 : \E k \in 1..Len(ret[1]) : ret[1][k] = SquareRight[i]

\* the bridge was built from a closest pair in the middle of the facing edges
C9_Witness ==
    /\ pc = "done"
    /\ TwoSquares
    /\ Len(ret) = 1
    /\ Len(all_bridges) = 1
    /\ Len(ret[1]) = 12
    /\ first_log[1].first.from.p = <<1100, 500>>
    /\ first_log[1].first.to.p = <<1000, 500>>

\* what C10 says of getBridge when the half-width search gave half
C10_AfterHalf(cur, tc, found, half) ==
    (HasValue(half)
     /\ HasValue(getSecondConnection(cur, tc, Value(half), line_width)))
        => getBridgeOfCurrent(cur, tc, found)
               = Some(orientBridge(
                     Value(getSecondConnection(cur, tc, Value(half), line_width)),
                     Value(half)))

\* what C10 says of getBridge when getConnection gave first
C10_Claimed(cur, tc, found, first) ==
    ( /\ HasValue(first)
      /\ getDistance2(Value(first)) <= max_dist * max_dist
      /\ ~HasValue(getSecondConnection(cur, tc, Value(first), line_width)) )
        => C10_AfterHalf(cur, tc, found,
               getSecondConnection(cur, tc, Value(first), line_width \div 2))

\* C10: when the full-width search fails and the half-width search succeeds,
\* getBridge re-runs the full-width search from the connection the half-width
\* search found and returns the bridge of these two when the re-run succeeds,
\* whatever the connection searches of the iteration give
C10_RetryAnchoredAtNewConnection ==
    (pc = "loop" /\ to_connect # <<>>) =>
        \A found \in outcomesOfCurrent(Current, Rest) :
            C10_Claimed(Current, Rest, found,
                        getConnectionOfCurrent(Current, Rest, found))

\* the number of vertices the walk from start to end in direction dir passes
ArcCount(poly, start, end, dir) ==
    IF start.point_idx = end.point_idx THEN Len(poly)
    ELSE IF dir > 0
    THEN (end.point_idx - start.point_idx + Len(poly)) % Len(poly)
    ELSE (start.point_idx - end.point_idx + Len(poly)) % Len(poly)

\* the vertices strictly between start and end on the walk from start in
\* direction dir, in the order the walk meets them
ArcBetween(poly, start, end, dir) ==
    [k \in 1..ArcCount(poly, start, end, dir) |->
        IF dir > 0
        THEN At(poly, (start.point_idx + k) % Len(poly))
        ELSE At(poly, (start.point_idx - (k - 1) + Len(poly) * 2) % Len(poly))]

\* start, the vertices between start and end, end
ExpectedSegment(poly, start, end, dir) ==
    <<start.p>> \o ArcBetween(poly, start, end, dir) \o <<end.p>>

\* C11: each of the two addPolygonSegment calls of the splicer appends exactly
\* start's coordinate, the vertices strictly between start and end on the walk
\* from start in the direction getPolygonDirection(end, start), and end's
\* coordinate; also for equal point_idx and for walks that wrap past index 0
C11_ExactSegment ==
    spliced # <<>> =>
        spliced[1] =
            ExpectedSegment(polyA, bridge.b.from, bridge.a.from,
                getPolygonDirection(polyA, <<polyB>>,
                                    bridge.a.from, bridge.b.from))
            \o ExpectedSegment(polyB, bridge.a.to, bridge.b.to,
                getPolygonDirection(polyA, <<polyB>>,
                                    bridge.b.to, bridge.a.to))

C11_Witness ==
    /\ spliced # <<>>
    /\ Len(polyA) = 4
    /\ bridge.b.from.point_idx = bridge.a.from.point_idx
    /\ bridge.b.from.p # bridge.a.from.p
    /\ Len(RetainedA) = 4
    /\ Len(polyB) = 3
    /\ bridge.a.to.point_idx = 2
    /\ bridge.b.to.point_idx = 1
    /\ RetainedB = <<polyB[1], polyB[2]>>

\* C15: each addPolygonSegment call appends 2 + k points with
\* ceil(n/2) <= k <= n for the n vertices of its polygon, k = n when start and
\* end have the same point_idx, so the spliced polygon has between
\* 4 + ceil(n1/2) + ceil(n2/2) and 4 + n1 + n2 points
C15_RetainedAtLeastHalf ==
    spliced # <<>> =>
        /\ SegmentALen = 2 + Len(RetainedA)
        /\ Len(spliced[1]) = 4 + Len(RetainedA) + Len(RetainedB)
        /\ (Len(polyA) + 1) \div 2 <= Len(RetainedA)
        /\ Len(RetainedA) <= Len(polyA)
        /\ (Len(polyB) + 1) \div 2 <= Len(RetainedB)
        /\ Len(RetainedB) <= Len(polyB)
        /\ bridge.a.from.point_idx = bridge.b.from.point_idx
               => Len(RetainedA) = Len(polyA)
        /\ bridge.a.to.point_idx = bridge.b.to.point_idx
               => Len(RetainedB) = Len(polyB)
        /\ Len(spliced[1]) >= 4 + (Len(polyA) + 1) \div 2 + (Len(polyB) + 1) \div 2
        /\ Len(spliced[1]) <= 4 + Len(polyA) + Len(polyB)

C15_Witness ==
    /\ spliced # <<>>
    /\ Len(polyA) = 3
    /\ Len(polyB) = 3
    /\ bridge.a.from.point_idx # bridge.b.from.point_idx
    /\ Len(RetainedA) = 2
    /\ bridge.a.to.point_idx = bridge.b.to.point_idx
    /\ Len(RetainedB) = 3
    /\ Len(spliced[1]) = 9

\* the (from, to) combinations in the order the loops of getSecondConnection
\* visit them
Combination(k) ==
    <<IF k <= 2 THEN sc_found.from_a ELSE sc_found.from_b,
      IF k % 2 = 1 THEN sc_found.to_a ELSE sc_found.to_b>>

\* combinations of two found points that pass the same-side filter
Surviving ==
    {k \in 1..4 :
        /\ HasValue(Combination(k)[1])
        /\ HasValue(Combination(k)[2])
        /\ sameSide(sc_first, Value(Combination(k)[1]), Value(Combination(k)[2]))}

Score(k) ==
    totalDistance2(sc_first, Value(Combination(k)[1]), Value(Combination(k)[2]))

\* the earliest surviving combination of minimal score
BestCombination ==
    CHOOSE k \in Surviving :
        \A j \in Surviving : Score(k) < Score(j) \/ (Score(k) = Score(j) /\ k <= j)

SecondConnectionFails ==
    \/ ~HasValue(sc_found.from_a)
    \/ ~HasValue(sc_found.to_a)
    \/ Surviving = {}
    \/ Score(BestCombination)
           > max_dist * max_dist + 2 * (sc_shift + 10) * (sc_shift + 10)

\* C12: getSecondConnection returns the surviving combination of minimal total
\* score, the earliest one on ties, and returns no value exactly when a
\* forward search fails, no combination survives, or the minimal score exceeds
\* max_dist^2 + 2 (shift_distance + 10)^2
C12_MinimalSurvivingCombination ==
    sc_result # <<>> =>
        IF SecondConnectionFails
        THEN sc_result[1] = None
        ELSE sc_result[1] = Some(Conn(Value(Combination(BestCombination)[1]),
                                      Value(Combination(BestCombination)[2])))

C12_Witness ==
    /\ sc_found = [from_a |-> Some(CPP(0, 0, <<5, 0>>)),
                   from_b |-> Some(CPP(0, 0, <<-5, 0>>)),
                   to_a   |-> Some(CPP(1, 0, <<5, 10>>)),
                   to_b   |-> Some(CPP(1, 0, <<-5, 10>>))]
    /\ Surviving = {1, 4}
    /\ Score(1) = Score(4)
    /\ sc_result = <<Some(Conn(CPP(0, 0, <<5, 0>>), CPP(1, 0, <<5, 10>>)))>>

\* what C13 says of getBridge when getConnection gave first: a bridge is
\* returned only if the full-width search from first succeeded
C13_Claimed(cur, tc, found, first) ==
    HasValue(getBridgeOfCurrent(cur, tc, found)) =>
        /\ HasValue(first)
        /\ HasValue(getSecondConnection(cur, tc, Value(first), line_width))

\* C13: getBridge returns a bridge only if the first call
\* getSecondConnection(connection, line_width) succeeded; when it fails there
\* is no bridge, whatever the half-width retry finds and whatever the
\* connection searches of the iteration give
C13_BridgeOnlyFromFirstTry ==
    (pc = "loop" /\ to_connect # <<>>) =>
        \A found \in outcomesOfCurrent(Current, Rest) :
            C13_Claimed(Current, Rest, found,
                        getConnectionOfCurrent(Current, Rest, found))

\* the full-width search from first fails, the half-width search succeeds,
\* and getBridge returns no bridge
C13_Case(cur, tc, found, first) ==
    /\ HasValue(first)
    /\ getDistance2(Value(first)) <= max_dist * max_dist
    /\ ~HasValue(getSecondConnection(cur, tc, Value(first), line_width))
    /\ HasValue(getSecondConnection(cur, tc, Value(first), line_width \div 2))
    /\ ~HasValue(getBridgeOfCurrent(cur, tc, found))

C13_Witness ==
    /\ pc = "done"
    /\ Len(input) = 2
    /\ all_bridges = <<>>
    /\ Len(ret) = 2
    /\ \A found \in outcomesOfCurrent(input[2], <<input[1]>>) :
           C13_Case(input[2], <<input[1]>>, found,
                    getConnectionOfCurrent(input[2], <<input[1]>>, found))

\* the polygons the four endpoints of bridge br refer to: both from points
\* lie on current, both to points on one slot of the worklist
SamePolygons(br) ==
    /\ br.a.from.poly = 0
    /\ br.b.from.poly = 0
    /\ br.a.to.poly = br.b.to.poly
    /\ br.a.to.poly # 0

\* the step from worklist rest to worklist after overwrites slot and nothing
\* else
OverwritesOnly(rest, after, slot) ==
    /\ slot \in 1..Len(rest)
    /\ Len(after) = Len(rest)
    /\ \A i \in 1..Len(rest) : i # slot => after[i] = rest[i]

\* C14: for every bridge getBridge returns, a.from and b.from lie on current
\* and a.to and b.to on one and the same element of the worklist, which is
\* not current, so the same-polygon assertions hold; that element is the slot
\* connect() overwrites
C14_SamePolygonAssertionsHold ==
    /\ [](\A k \in 1..Len(all_bridges) : SamePolygons(all_bridges[k]))
    /\ [][Len(all_bridges') = Len(all_bridges) + 1 =>
              /\ SamePolygons(all_bridges'[Len(all_bridges')])
              /\ OverwritesOnly(Rest, to_connect',
                                all_bridges'[Len(all_bridges')].b.to.poly)]_vars

C14_Witness ==
    /\ Len(all_bridges) >= 1
    /\ SamePolygons(all_bridges[1])
    /\ all_bridges[1].a.to.poly = 1
    /\ first_log[1].from_slot = 3
    /\ \E k \in 1..Len(all_bridges) : all_bridges[k].a # first_log[k].first

====
